---- MODULE Spec2Model ----
(***************************************************************************)
(* SyncSetInputStreamHandler                                               *)
(* (mediapipe/framework/stream_handler/sync_set_input_stream_handler.cc).  *)
(*                                                                         *)
(* The handler partitions the input streams of a node into sync sets,      *)
(* reports the node ready as soon as one sync set is ready, and fills the  *)
(* input set from that one sync set.  PrepareForRun, GetNodeReadiness and  *)
(* FillInputSet each hold mutex_ for their whole body, so each is one      *)
(* atomic action.  The packet producers of the input streams run between   *)
(* them.  Spec lets the three operations be called in any order; LiveSpec  *)
(* is one session under the scheduler, with its fairness.                  *)
(***************************************************************************)
EXTENDS Integers, Sequences, FiniteSets

\* ------------------------------------------------------------------ bounds
\* Number of input streams of the node: CollectionItemIds 0 .. NumStreams-1.
NumStreams == 2
\* Largest timestamp a packet can carry (Timestamp::Max()).
MaxTs == 1
\* Largest number of sync_set entries in the handler options.
MaxGroups == 2
\* Largest number of tag_index entries in the handler options, all sync_set
\* entries together.
MaxRefs == 2

\* -------------------------------------------------------------- timestamps
\* Timestamps are totally ordered: Unset < 0 .. MaxTs < OneOverPostStream < Done.
Unset == 0 - 1
OneOverPostStream == MaxTs + 1
Done == MaxTs + 2
StreamTs == 0 .. MaxTs
Bounds == 0 .. Done

Min2(a, b) == IF a < b THEN a ELSE b

\* Timestamp::NextAllowedInStream of a timestamp allowed in a stream.
NextAllowedInStream(t) == IF t < MaxTs THEN t + 1 ELSE OneOverPostStream

\* ----------------------------------------------------------------- streams
Ids == 0 .. (NumStreams - 1)
BeginId == 0
EndId == NumStreams
InvalidId == 0 - 1
NoPacket == 0 - 1

\* ----------------------------------------------------------- configuration
\* A tag_index entry is modelled by the number it names; the entries
\* 0 .. NumStreams-1 resolve to the stream of that id, NumStreams names no stream.
Refs == 0 .. NumStreams
SeqsUpTo(S, n) == UNION {[1 .. k -> S] : k \in 0 .. n}
RECURSIVE TotalLen(_)
TotalLen(seqs) == IF seqs = <<>> THEN 0 ELSE Len(Head(seqs)) + TotalLen(Tail(seqs))
SyncSetOptions ==
  {o \in SeqsUpTo(SeqsUpTo(Refs, MaxRefs), MaxGroups) : TotalLen(o) <= MaxRefs}

\* input_stream_managers_.GetId(tag, index)
GetId(ref) == IF ref \in Ids THEN ref ELSE InvalidId

VARIABLES
  options_,               \* handler_options.sync_set(): Seq of Seq of Refs
  sync_sets_,             \* Seq of Seq of CollectionItemId
  ready_sync_set_index_,  \* -1 when no sync set is ready
  ready_timestamp_,
  input_stream_managers_, \* id -> [queue: Seq of timestamps, bound: timestamp]
  prepared,               \* PrepareForRun has completed
  fatal,                  \* the CHECK that aborted the process, or "none", with
                          \* the pops and the input_timestamp of the aborted call
  verdict,                \* result of the GetNodeReadiness that ran last, or "none"
  min_stream_timestamp,   \* *min_stream_timestamp after that call
  prev_result,            \* <<verdict, timestamp>> of the call before it, when
                          \* nothing ran between the two; <<>> otherwise
  scan_before,            \* <<sync_sets_ before the scan>> when that call scanned
  examined,               \* the sync sets that scan examined, one entry for each
                          \* pass of the loop of line 135, in the order of the passes
  fill,                   \* <<record>> of the FillInputSet that ran last: its sync
                          \* set, timestamp, shards, pops; <<>> otherwise
  delivered,              \* id -> timestamps of the packets of the stream that
                          \* FillInputSet has handed out since PrepareForRun
  pruned,                 \* the sync sets GetNodeReadiness has found done since
                          \* PrepareForRun
  closed                  \* GetNodeReadiness has returned kReadyForClose since
                          \* PrepareForRun

vars == <<options_, sync_sets_, ready_sync_set_index_, ready_timestamp_,
          input_stream_managers_, prepared, fatal, verdict,
          min_stream_timestamp, prev_result, scan_before, examined, fill,
          delivered, pruned, closed>>

\* What the actions other than GetNodeReadiness do to its recorded result.
ForgetResult ==
  /\ verdict' = "none"
  /\ min_stream_timestamp' = Unset
  /\ prev_result' = <<>>
  /\ scan_before' = <<>>
  /\ examined' = <<>>

\* A failed CHECK aborts the process: nothing of its state remains.  The
\* model keeps the CHECK that failed, how many streams the aborted call had
\* popped, the input_timestamp of an aborted FillInputSet (Unset for the
\* other calls), and whether the call before the aborted one was a
\* FillInputSet.
Abort(check, pops, input_timestamp) ==
  /\ fatal' = [check |-> check, pops |-> pops, input_timestamp |-> input_timestamp,
               after_fill |-> (fill # <<>>)]
  /\ options_' = <<>>
  /\ sync_sets_' = <<>>
  /\ ready_sync_set_index_' = 0 - 1
  /\ ready_timestamp_' = Unset
  /\ input_stream_managers_' = [id \in Ids |-> [queue |-> <<>>, bound |-> 0]]
  /\ prepared' = FALSE
  /\ ForgetResult
  /\ fill' = <<>>
  /\ delivered' = [id \in Ids |-> {}]
  /\ pruned' = {}
  /\ closed' = FALSE

Running == fatal.check = "none"

\* ------------------------------------------------- input streams (managers)
\* InputStreamManager::PrepareForRun: an empty queue and the lowest bound.
FreshStream == [queue |-> <<>>, bound |-> 0]

\* InputStreamManager::MinTimestampOrBound(&empty): the timestamp of the next
\* packet, or the bound when no packet is buffered.
MinTimestampOrBound(stream) ==
  IF stream.queue = <<>>
    THEN [ts |-> stream.bound, empty |-> TRUE]
    ELSE [ts |-> Head(stream.queue), empty |-> FALSE]

\* InputStreamManager::PopPacketAtTimestamp(timestamp, &dropped, &done):
\* discards the packets before timestamp (counting them), removes and returns
\* the packet at timestamp when there is one, and never lets the bound stay at
\* or below timestamp.
PopPacketAtTimestamp(stream, timestamp) ==
  LET q == stream.queue
      before == {i \in DOMAIN q : q[i] < timestamp}
      at == {i \in DOMAIN q : q[i] = timestamp}
      rest == SubSeq(q, Cardinality(before) + Cardinality(at) + 1, Len(q))
      bound == IF stream.bound <= timestamp
                 THEN NextAllowedInStream(timestamp) ELSE stream.bound
  IN [stream |-> [queue |-> rest, bound |-> bound],
      packet |-> IF at # {} THEN timestamp ELSE NoPacket,
      num_packets_dropped |-> Cardinality(before),
      stream_is_done |-> (rest = <<>> /\ bound = Done)]

\* InputStreamHandler::AddPacketToShard: the packet (or none) and the done
\* flag go to the shard of the stream.
AddPacketToShard(shard, packet, stream_is_done) ==
  [packet |-> packet, is_done |-> stream_is_done]

EmptyShard == [packet |-> NoPacket, is_done |-> FALSE]

\* ------------------------------------------------------------ PrepareForRun
\* Mutant of AddTagIndexes: the CHECK of line 102 left out.
RECURSIVE AddTagIndexes_UsedNotChecked(_, _, _, _)
AddTagIndexes_UsedNotChecked(tag_indexes, k, sets, used_ids) ==
  IF k > Len(tag_indexes)
    THEN [fatal |-> "none", sets |-> sets, used_ids |-> used_ids]
    ELSE LET id == GetId(tag_indexes[k]) IN
      IF id = InvalidId
        THEN [fatal |-> "stream_not_found", sets |-> sets, used_ids |-> used_ids]
      ELSE AddTagIndexes_UsedNotChecked(tag_indexes, k + 1,
                                        [sets EXCEPT ![Len(sets)] = Append(@, id)],
                                        used_ids \cup {id})

\* Lines 96-106: the tag_index entries of one sync_set entry, from entry k on.
RECURSIVE AddTagIndexes(_, _, _, _)
AddTagIndexes(tag_indexes, k, sets, used_ids) ==
  IF k > Len(tag_indexes)
    THEN [fatal |-> "none", sets |-> sets, used_ids |-> used_ids]
    ELSE LET id == GetId(tag_indexes[k]) IN
      IF id = InvalidId
        THEN [fatal |-> "stream_not_found", sets |-> sets, used_ids |-> used_ids]
      ELSE IF id \in used_ids
        THEN [fatal |-> "stream_in_more_than_one_sync_set", sets |-> sets,
              used_ids |-> used_ids]
      ELSE AddTagIndexes(tag_indexes, k + 1,
                         [sets EXCEPT ![Len(sets)] = Append(@, id)],
                         used_ids \cup {id})

\* Lines 93-107: the sync_set entries of the options, from entry g on.
RECURSIVE AddSyncSets(_, _, _, _)
AddSyncSets(options, g, sets, used_ids) ==
  IF g > Len(options)
    THEN [fatal |-> "none", sets |-> sets, used_ids |-> used_ids]
    ELSE LET emplaced == Append(sets, <<>>) IN
      IF ~(0 < Len(options[g]))
        THEN [fatal |-> "empty_sync_set", sets |-> emplaced, used_ids |-> used_ids]
        ELSE LET r == AddTagIndexes(options[g], 1, emplaced, used_ids) IN
          IF r.fatal # "none" THEN r
          ELSE AddSyncSets(options, g + 1, r.sets, r.used_ids)

\* Mutant of RemainingIds: the test of line 111 left out, every id remains.
RECURSIVE RemainingIds_UsedIgnored(_, _, _)
RemainingIds_UsedIgnored(id, used_ids, remaining_ids) ==
  IF ~(id < EndId) THEN remaining_ids
  ELSE RemainingIds_UsedIgnored(id + 1, used_ids, Append(remaining_ids, id))

\* Lines 108-114: the ids from id on that no sync_set entry names, ascending.
RECURSIVE RemainingIds(_, _, _)
RemainingIds(id, used_ids, remaining_ids) ==
  IF ~(id < EndId) THEN remaining_ids
  ELSE RemainingIds(id + 1, used_ids,
                    IF id \notin used_ids THEN Append(remaining_ids, id)
                    ELSE remaining_ids)

\* Mutant of PushRemaining: the remaining ids are pushed even when there are none.
PushRemaining_Always(sets, remaining_ids) == Append(sets, remaining_ids)

\* Lines 115-117.
PushRemaining(sets, remaining_ids) ==
  IF remaining_ids # <<>> THEN Append(sets, remaining_ids) ELSE sets

\* Lines 118-119: the cache after PrepareForRun.
DisarmedIndex == 0 - 1
DisarmedTimestamp == Done

PrepareForRun ==
  /\ Running
  /\ LET r == AddSyncSets(options_, 1, <<>>, {}) IN
       IF r.fatal # "none"
         THEN Abort(r.fatal, 0, Unset)
         ELSE /\ sync_sets_' =
                   PushRemaining(r.sets, RemainingIds(BeginId, r.used_ids, <<>>))
              /\ ready_sync_set_index_' = DisarmedIndex
              /\ ready_timestamp_' = DisarmedTimestamp
              /\ input_stream_managers_' = [id \in Ids |-> FreshStream]
              /\ prepared' = TRUE
              /\ ForgetResult
              /\ fill' = <<>>
              /\ delivered' = [id \in Ids |-> {}]
              /\ pruned' = {}
              /\ closed' = FALSE
              /\ UNCHANGED <<options_, fatal>>

\* --------------------------------------------------------- GetNodeReadiness
\* Mutant of ScanSyncSet: lines 144-146 left out, min_bound stays Done.
RECURSIVE ScanSyncSet_BoundIgnored(_, _, _, _, _)
ScanSyncSet_BoundIgnored(sync_set, k, min_ts, min_bound, streams) ==
  IF k > Len(sync_set) THEN [min_ts |-> min_ts, min_bound |-> min_bound]
  ELSE LET m == MinTimestampOrBound(streams[sync_set[k]]) IN
    ScanSyncSet_BoundIgnored(sync_set, k + 1, Min2(min_ts, m.ts), min_bound,
                             streams)

\* Lines 140-148: the streams of one sync set, from member k on.
RECURSIVE ScanSyncSet(_, _, _, _, _)
ScanSyncSet(sync_set, k, min_ts, min_bound, streams) ==
  IF k > Len(sync_set) THEN [min_ts |-> min_ts, min_bound |-> min_bound]
  ELSE LET m == MinTimestampOrBound(streams[sync_set[k]]) IN
    ScanSyncSet(sync_set, k + 1, Min2(min_ts, m.ts),
                IF m.empty THEN Min2(min_bound, m.ts) ELSE min_bound, streams)

\* Mutant of SyncSetIsDone: no sync set is ever found done.
SyncSetIsDone_Never(min_ts) == FALSE

\* Mutant of SyncSetIsDone: a sync set whose streams are past the last
\* timestamp a packet can carry counts as done.
SyncSetIsDone_PastMax(min_ts) == min_ts >= OneOverPostStream

\* Line 150: every stream of the sync set is done.
SyncSetIsDone(min_ts) == min_ts = Done

\* Mutant of EraseSyncSet: the sync set after the one that is done is erased
\* (the last one when none follows).
EraseSyncSet_Next(sets, sync_set_index) ==
  IF sync_set_index + 2 <= Len(sets)
    THEN SubSeq(sets, 1, sync_set_index + 1) \o SubSeq(sets, sync_set_index + 3, Len(sets))
    ELSE SubSeq(sets, 1, Len(sets) - 1)

\* Line 156: sync_sets_.erase(sync_sets_.begin() + sync_set_index), the index
\* counted from 0.
EraseSyncSet(sets, sync_set_index) ==
  SubSeq(sets, 1, sync_set_index) \o SubSeq(sets, sync_set_index + 2, Len(sets))

\* Mutant of IndexAfterErase: line 157 left out.
IndexAfterErase_NotDecremented(sync_set_index) == sync_set_index + 1

\* Lines 157-158 and the ++ of line 136: the index examined after an erase.
IndexAfterErase(sync_set_index) == (sync_set_index - 1) + 1

\* Mutant of SyncSetIsReady: a bound equal to the min value counts as ready.
SyncSetIsReady_OrEqual(min_bound, min_ts) == min_bound >= min_ts

\* Line 161: the sync set is ready at min_ts.
SyncSetIsReady(min_bound, min_ts) == min_bound > min_ts

\* Mutant of IsEarlier: a later sync set at the same timestamp replaces the
\* one stored.
IsEarlier_OrEqual(min_ts, ready_timestamp) == min_ts <= ready_timestamp

\* Line 162: the sync set is ready earlier than the one stored.
IsEarlier(min_ts, ready_timestamp) == min_ts < ready_timestamp

\* Lines 135-171: the sync sets from sync_set_index (counted from 0) on.  r
\* holds sync_sets_, ready_sync_set_index_, ready_timestamp_ and
\* *min_stream_timestamp, the sync sets the scan has found done, and the sync
\* set of each pass of the loop so far.
RECURSIVE ScanSyncSets(_, _, _)
ScanSyncSets(sync_set_index, r, streams) ==
  IF ~(sync_set_index < Len(r.sets)) THEN r
  ELSE LET m == ScanSyncSet(r.sets[sync_set_index + 1], 1, Done, Done, streams)
           seen == [r EXCEPT !.examined = Append(@, r.sets[sync_set_index + 1])]
       IN
    IF SyncSetIsDone(m.min_ts)
      THEN ScanSyncSets(IndexAfterErase(sync_set_index),
                        [seen EXCEPT !.sets = EraseSyncSet(@, sync_set_index),
                                     !.min_stream_timestamp = m.min_ts,
                                     !.done = @ \cup {r.sets[sync_set_index + 1]}],
                        streams)
    ELSE IF SyncSetIsReady(m.min_bound, m.min_ts)
      THEN IF IsEarlier(m.min_ts, r.ready_timestamp)
        THEN ScanSyncSets(sync_set_index + 1,
                          [seen EXCEPT !.ready_timestamp = m.min_ts,
                                       !.ready_index = sync_set_index,
                                       !.min_stream_timestamp = m.min_ts],
                          streams)
        ELSE ScanSyncSets(sync_set_index + 1,
                          [seen EXCEPT !.min_stream_timestamp = m.min_ts], streams)
    ELSE IF m.min_bound # m.min_ts
      THEN [seen EXCEPT !.min_stream_timestamp = m.min_ts,
                        !.fatal = "bound_below_timestamp"]
    ELSE ScanSyncSets(sync_set_index + 1,
                      [seen EXCEPT !.min_stream_timestamp = m.min_ts], streams)

\* Mutant of VerdictAfterScan: line 173 left out, the timestamp of the sync
\* set scanned last is returned with kReadyForProcess.
VerdictAfterScan_LastScanned(r) ==
  IF r.ready_index >= 0
    THEN [verdict |-> "kReadyForProcess", timestamp |-> r.min_stream_timestamp]
  ELSE IF r.sets = <<>>
    THEN [verdict |-> "kReadyForClose", timestamp |-> Done]
  ELSE [verdict |-> "kNotReady", timestamp |-> r.min_stream_timestamp]

\* Mutant of VerdictAfterScan: kReadyForClose is decided by the timestamp the
\* scan left, not by the collection being empty.
VerdictAfterScan_ByTimestamp(r) ==
  IF r.ready_index >= 0
    THEN [verdict |-> "kReadyForProcess", timestamp |-> r.ready_timestamp]
  ELSE IF r.min_stream_timestamp = Done
    THEN [verdict |-> "kReadyForClose", timestamp |-> Done]
  ELSE [verdict |-> "kNotReady", timestamp |-> r.min_stream_timestamp]

\* Lines 172-181: the verdict after the scan.
VerdictAfterScan(r) ==
  IF r.ready_index >= 0
    THEN [verdict |-> "kReadyForProcess", timestamp |-> r.ready_timestamp]
  ELSE IF r.sets = <<>>
    THEN [verdict |-> "kReadyForClose", timestamp |-> Done]
  ELSE [verdict |-> "kNotReady", timestamp |-> r.min_stream_timestamp]

\* Mutant of ReadinessIsCached: lines 131-134 left out, every call scans.
ReadinessIsCached_Never == FALSE

\* Line 131: a sync set is ready already.
ReadinessIsCached == ready_sync_set_index_ >= 0

\* (The scan is bound by \E, over the one result it has, so that it is
\* evaluated once for the step.)
GetNodeReadiness ==
  /\ prepared /\ Running
  /\ IF ReadinessIsCached
       THEN /\ min_stream_timestamp' = ready_timestamp_
            /\ verdict' = "kReadyForProcess"
            /\ scan_before' = <<>>
            /\ examined' = <<>>
            /\ prev_result' = IF verdict # "none"
                                THEN <<verdict, min_stream_timestamp>> ELSE <<>>
            /\ fill' = <<>>
            /\ UNCHANGED <<options_, sync_sets_, ready_sync_set_index_,
                           ready_timestamp_, input_stream_managers_, prepared,
                           fatal, delivered, pruned, closed>>
       ELSE \E r \in {ScanSyncSets(0, [sets |-> sync_sets_,
                                        ready_index |-> ready_sync_set_index_,
                                        ready_timestamp |-> ready_timestamp_,
                                        min_stream_timestamp |-> Unset,
                                        done |-> {},
                                        examined |-> <<>>,
                                        fatal |-> "none"],
                                    input_stream_managers_)} :
            LET v == VerdictAfterScan(r)
            IN IF r.fatal # "none"
                 THEN Abort(r.fatal, 0, Unset)
                 ELSE /\ sync_sets_' = r.sets
                      /\ ready_sync_set_index_' = r.ready_index
                      /\ ready_timestamp_' = r.ready_timestamp
                      /\ verdict' = v.verdict
                      /\ min_stream_timestamp' = v.timestamp
                      /\ scan_before' = <<sync_sets_>>
                      /\ examined' = r.examined
                      /\ prev_result' =
                           IF verdict # "none"
                             THEN <<verdict, min_stream_timestamp>> ELSE <<>>
                      /\ fill' = <<>>
                      /\ pruned' = pruned \cup r.done
                      /\ closed' = (closed \/ v.verdict = "kReadyForClose")
                      /\ UNCHANGED <<options_, input_stream_managers_, prepared,
                                     fatal, delivered>>

\* ------------------------------------------------------------- FillInputSet
\* Timestamp::IsAllowedInStream
IsAllowedInStream(timestamp) == timestamp \in StreamTs

\* Lines 193-204: the streams of the ready sync set, from member k on.  st
\* holds the streams, the shards, and per stream the number of pops and of
\* packets the pops dropped.
RECURSIVE FillFrom(_, _, _, _)
FillFrom(sync_set, k, input_timestamp, st) ==
  IF k > Len(sync_set) THEN st
  ELSE LET id == sync_set[k]
           p == PopPacketAtTimestamp(st.streams[id], input_timestamp)
           popped == [st EXCEPT !.streams[id] = p.stream,
                                !.pops[id] = @ + 1,
                                !.dropped[id] = @ + p.num_packets_dropped]
       IN IF p.num_packets_dropped # 0
            THEN [popped EXCEPT !.fatal = "packets_dropped"]
            ELSE FillFrom(sync_set, k + 1, input_timestamp,
                          [popped EXCEPT !.input_set[id] =
                             AddPacketToShard(@, p.packet, p.stream_is_done)])

\* Mutant of ReadySyncSet: the first sync set is popped, whichever is ready.
ReadySyncSet_First == sync_sets_[1]

\* Mutant of ReadySyncSet: every stream is popped, as a handler with one
\* sync set would.
RECURSIVE Flatten(_)
Flatten(sets) == IF sets = <<>> THEN <<>> ELSE Head(sets) \o Flatten(Tail(sets))
ReadySyncSet_All == Flatten(sync_sets_)

\* Line 193: the sync set FillInputSet pops.
ReadySyncSet == sync_sets_[ready_sync_set_index_ + 1]

\* Mutant of CacheAfterFill: lines 205-206 left out.
CacheAfterFill_Kept(input_timestamp) ==
  [index |-> ready_sync_set_index_, timestamp |-> ready_timestamp_]

\* Mutant of CacheAfterFill: line 206 left out.
CacheAfterFill_StaleTimestamp(input_timestamp) ==
  [index |-> 0 - 1, timestamp |-> ready_timestamp_]

\* Lines 205-206: the cache after FillInputSet.
CacheAfterFill(input_timestamp) == [index |-> 0 - 1, timestamp |-> Done]

\* Mutant of TimestampMatches: the CHECK_EQ of line 191 left out.
TimestampMatches_Any(input_timestamp) == TRUE

\* Line 191: the timestamp of the call is the one the sync set is ready at.
TimestampMatches(input_timestamp) == input_timestamp = ready_timestamp_

\* (The ready sync set and the result of the loop are bound by \E, as the scan
\* is in GetNodeReadiness.)
FillInputSet(input_timestamp) ==
  /\ prepared /\ Running
  /\ IF ~IsAllowedInStream(input_timestamp)
       THEN Abort("timestamp_not_allowed", 0, input_timestamp)
     ELSE IF ~(0 <= ready_sync_set_index_)
       THEN Abort("no_ready_sync_set", 0, input_timestamp)
     ELSE IF ~TimestampMatches(input_timestamp)
       THEN Abort("timestamp_mismatch", 0, input_timestamp)
     ELSE \E sync_set \in {ReadySyncSet} :
          \E st \in {FillFrom(sync_set, 1, input_timestamp,
                              [streams |-> input_stream_managers_,
                               input_set |-> [id \in Ids |-> EmptyShard],
                               pops |-> [id \in Ids |-> 0],
                               dropped |-> [id \in Ids |-> 0],
                               fatal |-> "none"])} :
             IF st.fatal # "none"
               THEN Abort(st.fatal, Cardinality({id \in Ids : st.pops[id] > 0}),
                          input_timestamp)
               ELSE /\ input_stream_managers_' = st.streams
                    /\ fill' = <<[sync_set |-> sync_set,
                                  timestamp |-> input_timestamp,
                                  input_set |-> st.input_set,
                                  pops |-> st.pops, dropped |-> st.dropped,
                                  delivered_before |-> delivered]>>
                    /\ delivered' =
                         [id \in Ids |->
                            IF st.input_set[id].packet # NoPacket
                              THEN delivered[id] \cup {st.input_set[id].packet}
                              ELSE delivered[id]]
                    /\ ready_sync_set_index_' = CacheAfterFill(input_timestamp).index
                    /\ ready_timestamp_' = CacheAfterFill(input_timestamp).timestamp
                    /\ ForgetResult
                    /\ UNCHANGED <<options_, sync_sets_, prepared, fatal, pruned,
                                   closed>>

\* ---------------------------------------------------------------- producers
\* A producer adds a packet at or above the bound of its stream; the bound
\* moves just past the packet.
AddPacket(id, timestamp) ==
  /\ prepared /\ Running
  /\ timestamp >= input_stream_managers_[id].bound
  /\ input_stream_managers_' =
       [input_stream_managers_ EXCEPT
          ![id] = [queue |-> Append(@.queue, timestamp),
                   bound |-> NextAllowedInStream(timestamp)]]
  /\ ForgetResult
  /\ fill' = <<>>
  /\ UNCHANGED <<options_, sync_sets_, ready_sync_set_index_, ready_timestamp_,
                 prepared, fatal, delivered, pruned, closed>>

\* A producer advances the bound of its stream; the bound Done closes it.
SetNextTimestampBound(id, bound) ==
  /\ prepared /\ Running
  /\ bound > input_stream_managers_[id].bound
  /\ input_stream_managers_' =
       [input_stream_managers_ EXCEPT ![id].bound = bound]
  /\ ForgetResult
  /\ fill' = <<>>
  /\ UNCHANGED <<options_, sync_sets_, ready_sync_set_index_, ready_timestamp_,
                 prepared, fatal, delivered, pruned, closed>>

\* -------------------------------------------------------------------- model
\* The state after construction: no sync sets, index -1, and ready_timestamp_
\* default-constructed (Timestamp::Unset()).
Init ==
  /\ options_ \in SyncSetOptions
  /\ sync_sets_ = <<>>
  /\ ready_sync_set_index_ = 0 - 1
  /\ ready_timestamp_ = Unset
  /\ input_stream_managers_ = [id \in Ids |-> FreshStream]
  /\ prepared = FALSE
  /\ fatal = [check |-> "none", pops |-> 0, input_timestamp |-> Unset,
              after_fill |-> FALSE]
  /\ verdict = "none"
  /\ min_stream_timestamp = Unset
  /\ prev_result = <<>>
  /\ scan_before = <<>>
  /\ examined = <<>>
  /\ fill = <<>>
  /\ delivered = [id \in Ids |-> {}]
  /\ pruned = {}
  /\ closed = FALSE

Next ==
  \/ PrepareForRun
  \/ GetNodeReadiness
  \/ \E input_timestamp \in StreamTs \cup {Done} : FillInputSet(input_timestamp)
  \/ \E id \in Ids, timestamp \in StreamTs : AddPacket(id, timestamp)
  \/ \E id \in Ids, bound \in Bounds : SetNextTimestampBound(id, bound)

Spec == Init /\ [][Next]_vars

\* One session under the scheduler: PrepareForRun runs once; FillInputSet is
\* only invoked after GetNodeReadiness returned kReadyForProcess, with the
\* timestamp it returned, which is ready_timestamp_ for as long as the sync
\* set stays ready.
ScheduledFillInputSet ==
  /\ ready_sync_set_index_ >= 0
  /\ FillInputSet(ready_timestamp_)

CloseStream(id) == SetNextTimestampBound(id, Done)

LiveNext ==
  \/ (~prepared /\ PrepareForRun)
  \/ GetNodeReadiness
  \/ ScheduledFillInputSet
  \/ \E id \in Ids, timestamp \in StreamTs : AddPacket(id, timestamp)
  \/ \E id \in Ids, bound \in Bounds : SetNextTimestampBound(id, bound)

\* The scheduler keeps calling GetNodeReadiness and follows kReadyForProcess
\* with FillInputSet; every producer closes its stream in the end.
LiveSpec ==
  /\ Init
  /\ [][LiveNext]_vars
  /\ WF_vars(GetNodeReadiness)
  /\ WF_vars(ScheduledFillInputSet)
  /\ \A id \in Ids : WF_vars(CloseStream(id))

\* ============================================================== properties
\* Vocabulary of the properties, stated on sets rather than by the loops.
Members(sync_set) == {sync_set[k] : k \in DOMAIN sync_set}
SetsOf(sets) == {sets[i] : i \in DOMAIN sets}
MinOf(S) == CHOOSE x \in S : \A y \in S : x <= y
IsEmptyStream(id) == input_stream_managers_[id].queue = <<>>
\* The timestamp of the next packet of the stream, or its bound when empty.
ValueOf(id) ==
  IF IsEmptyStream(id) THEN input_stream_managers_[id].bound
  ELSE MinOf({input_stream_managers_[id].queue[k] :
                k \in DOMAIN input_stream_managers_[id].queue})
MinValue(sync_set) == MinOf({ValueOf(id) : id \in Members(sync_set)} \cup {Done})
MinBound(sync_set) ==
  MinOf({input_stream_managers_[id].bound :
           id \in {m \in Members(sync_set) : IsEmptyStream(m)}} \cup {Done})
Exhausted(sync_set) == MinValue(sync_set) = Done
Qualifies(sync_set) ==
  ~Exhausted(sync_set) /\ MinBound(sync_set) > MinValue(sync_set)
Inconclusive(sync_set) ==
  ~Exhausted(sync_set) /\ MinBound(sync_set) = MinValue(sync_set)
Armed == ready_sync_set_index_ >= 0
Evaluated == Running /\ verdict # "none"
Scanned == Evaluated /\ scan_before # <<>>
Filled == Running /\ fill # <<>>
\* The state PrepareForRun leaves: only PrepareForRun empties every stream and
\* forgets the last result at once.
JustPrepared ==
  /\ prepared /\ Running /\ verdict = "none" /\ fill = <<>>
  /\ \A id \in Ids : input_stream_managers_[id] = FreshStream
\* The ids the sync_set entries of the options name.
Claimed ==
  UNION {{GetId(options_[g][k]) : k \in DOMAIN options_[g]} : g \in DOMAIN options_}
Occurrences(sets, id) ==
  Cardinality({p \in UNION {{<<i, k>> : k \in DOMAIN sets[i]} : i \in DOMAIN sets} :
                 sets[p[1]][p[2]] = id})

\* C1: after PrepareForRun succeeds the sync sets partition the input streams:
\* every stream id is in exactly one sync set, exactly once; the sync_set
\* entries of the options come first, in their order and with their members
\* in their order; the ids no entry names form one last sync set, which is
\* there only when there is such an id.
C1_PartitionAfterPrepare ==
  JustPrepared =>
    /\ \A id \in Ids : Occurrences(sync_sets_, id) = 1
    /\ \A i \in DOMAIN sync_sets_ : Members(sync_sets_[i]) \subseteq Ids
    /\ Len(sync_sets_) >= Len(options_)
    /\ \A g \in DOMAIN options_ :
         /\ Len(sync_sets_[g]) = Len(options_[g])
         /\ \A k \in DOMAIN options_[g] : sync_sets_[g][k] = GetId(options_[g][k])
    /\ IF Ids \ Claimed = {}
         THEN Len(sync_sets_) = Len(options_)
         ELSE /\ Len(sync_sets_) = Len(options_) + 1
              /\ Members(sync_sets_[Len(sync_sets_)]) = Ids \ Claimed

\* C1 witness: one sync_set entry naming stream 1, and stream 0 left to the
\* last sync set.
C1_Witness ==
  /\ JustPrepared
  /\ options_ = <<<<1>>>>
  /\ sync_sets_ = <<<<1>>, <<0>>>>

\* C2: a GetNodeReadiness that scans returns kReadyForProcess exactly when
\* some sync set that is not done has its min bound strictly above its min
\* value; a sync set whose min bound equals its min value is not the one made
\* ready; and when no sync set qualifies and one remains, the verdict is
\* kNotReady and no sync set is ready.
C2_ReadyIffBoundAboveValue ==
  Scanned =>
    LET before == scan_before[1] IN
      /\ (verdict = "kReadyForProcess") <=>
           (\E i \in DOMAIN before : Qualifies(before[i]))
      /\ Armed => /\ ready_sync_set_index_ + 1 \in DOMAIN sync_sets_
                  /\ Qualifies(sync_sets_[ready_sync_set_index_ + 1])
                  /\ ~Inconclusive(sync_sets_[ready_sync_set_index_ + 1])
      /\ ((\A i \in DOMAIN before : ~Qualifies(before[i])) /\ sync_sets_ # <<>>) =>
           /\ verdict = "kNotReady"
           /\ ready_sync_set_index_ = 0 - 1
           /\ ready_timestamp_ = Done

\* C2 witness: a scan passed over an earlier sync set whose min bound equals
\* its min value and made a later one ready.
C2_Witness ==
  /\ Scanned /\ verdict = "kReadyForProcess"
  /\ \E i \in DOMAIN sync_sets_ :
       i < ready_sync_set_index_ + 1 /\ Inconclusive(sync_sets_[i])

\* C3: the sync set a scan makes ready is, among the sync sets that qualify,
\* the one with the smallest min value, and among those with that min value
\* the first in the order of the collection; the timestamp returned is its
\* min value.
C3_EarliestThenFirst ==
  (Scanned /\ verdict = "kReadyForProcess") =>
    LET before == scan_before[1] IN
      /\ ready_sync_set_index_ + 1 \in DOMAIN sync_sets_
      /\ LET ready == sync_sets_[ready_sync_set_index_ + 1] IN
           /\ Qualifies(ready)
           /\ ready_timestamp_ = MinValue(ready)
           /\ min_stream_timestamp = MinValue(ready)
           /\ \E i \in DOMAIN before :
                /\ before[i] = ready
                /\ \A j \in DOMAIN before :
                     Qualifies(before[j]) =>
                       /\ MinValue(ready) <= MinValue(before[j])
                       /\ MinValue(before[j]) = MinValue(ready) => i <= j

\* C3 witness: two sync sets qualify at the same timestamp and the first is
\* the one made ready.
C3_Witness ==
  /\ Scanned /\ verdict = "kReadyForProcess"
  /\ \E j \in DOMAIN sync_sets_ :
       /\ j > ready_sync_set_index_ + 1
       /\ Qualifies(sync_sets_[j])
       /\ MinValue(sync_sets_[j]) = ready_timestamp_

\* A later sync set at a strictly smaller timestamp is made ready instead of
\* an earlier one.
C3_LaterSetWins ==
  /\ Scanned /\ verdict = "kReadyForProcess"
  /\ \E j \in DOMAIN sync_sets_ :
       /\ j < ready_sync_set_index_ + 1
       /\ Qualifies(sync_sets_[j])
       /\ MinValue(sync_sets_[j]) > ready_timestamp_

\* C4 as claimed: two GetNodeReadiness calls with nothing between them return
\* the same verdict and the same timestamp, whatever the verdict.
C4_SameVerdictAndTimestamp ==
  (Evaluated /\ prev_result # <<>>) =>
    <<verdict, min_stream_timestamp>> = prev_result

\* C4 amended: two GetNodeReadiness calls with nothing between them return the
\* same verdict, and the same timestamp when the verdict is kReadyForProcess
\* or kReadyForClose.
C4_SameVerdictAndReadyTimestamp ==
  (Evaluated /\ prev_result # <<>>) =>
    /\ verdict = prev_result[1]
    /\ verdict # "kNotReady" => min_stream_timestamp = prev_result[2]

\* C4 witness: the second of two calls returned kReadyForProcess again.
C4_Witness ==
  /\ Evaluated /\ prev_result # <<>>
  /\ verdict = "kReadyForProcess"
  /\ prev_result[1] = "kReadyForProcess"

\* C5: no pop of FillInputSet reports a dropped packet, so the CHECK on
\* num_packets_dropped never fails; a packet FillInputSet hands out carries the
\* timestamp of the call, and no FillInputSet before it handed it out.
C5_NoDropAtMostOnce ==
  /\ fatal.check # "packets_dropped"
  /\ Filled =>
       \A id \in Ids :
         /\ fill[1].dropped[id] = 0
         /\ fill[1].input_set[id].packet # NoPacket =>
              /\ fill[1].input_set[id].packet = fill[1].timestamp
              /\ fill[1].input_set[id].packet \notin fill[1].delivered_before[id]

\* C5 witness: FillInputSet handed out a packet of a stream that still buffers
\* a later packet.
C5_Witness ==
  /\ Filled
  /\ \E id \in Ids :
       /\ fill[1].input_set[id].packet # NoPacket
       /\ input_stream_managers_[id].queue # <<>>

\* The shard FillInputSet leaves for a member of the ready sync set: the
\* packet the stream buffers at the timestamp, if any, and whether the stream
\* is done after the pop.
ShardOf(id, timestamp) ==
  LET q == input_stream_managers_[id].queue
      has == \E k \in DOMAIN q : q[k] = timestamp
      left == {k \in DOMAIN q : q[k] > timestamp}
  IN [packet |-> IF has THEN timestamp ELSE NoPacket,
      is_done |-> (left = {} /\ input_stream_managers_[id].bound = Done)]

\* C6: FillInputSet pops each stream of the ready sync set once and fills its
\* shard; it pops no other stream, and leaves every other stream and shard,
\* and the sync sets, as they were.
C6_OnlyReadySyncSet ==
  [][(Armed /\ fill' # <<>>) =>
       /\ fill'[1].sync_set = sync_sets_[ready_sync_set_index_ + 1]
       /\ sync_sets_' = sync_sets_
       /\ \A id \in Ids :
            IF id \in Members(sync_sets_[ready_sync_set_index_ + 1])
              THEN /\ fill'[1].pops[id] = 1
                   /\ fill'[1].input_set[id] = ShardOf(id, ready_timestamp_)
              ELSE /\ fill'[1].pops[id] = 0
                   /\ fill'[1].input_set[id] = EmptyShard
                   /\ input_stream_managers_'[id] = input_stream_managers_[id]]_vars

\* C6 witness: FillInputSet ran while a stream of another sync set buffered a
\* packet.
C6_Witness ==
  /\ Filled
  /\ \E id \in Ids \ Members(fill[1].sync_set) :
       input_stream_managers_[id].queue # <<>>

\* C7: each FillInputSet hands out a packet of its sync set at its timestamp,
\* and that timestamp is strictly above the timestamp of every packet handed
\* out of a stream of that sync set before: the timestamps of the successive
\* FillInputSet calls of one sync set increase strictly.
C7_IncreasingPerSyncSet ==
  Filled =>
    /\ \E id \in Members(fill[1].sync_set) :
         fill[1].input_set[id].packet = fill[1].timestamp
    /\ \A id \in Members(fill[1].sync_set) :
         \A t \in fill[1].delivered_before[id] : t < fill[1].timestamp

\* C7 witness: the second FillInputSet of a sync set.
C7_Witness ==
  /\ Filled
  /\ \E id \in Members(fill[1].sync_set) : fill[1].delivered_before[id] # {}

\* The timestamps of FillInputSet calls of different sync sets go back: this
\* call is below a packet handed out of another sync set before.
C7_JumpsBackAcrossSyncSets ==
  /\ Filled
  /\ \E id \in Ids \ Members(fill[1].sync_set) :
       \E t \in delivered[id] : t > fill[1].timestamp

\* C8: after FillInputSet no sync set is ready (index -1, timestamp Done); the
\* GetNodeReadiness that follows scans all the sync sets; and a sync set is
\* made ready again only when it qualifies, at a timestamp above every
\* timestamp it was filled at.
C8_DisarmedAfterFill ==
  /\ [](Filled => (ready_sync_set_index_ = 0 - 1 /\ ready_timestamp_ = Done))
  /\ []((Evaluated /\ Armed) =>
          /\ Qualifies(sync_sets_[ready_sync_set_index_ + 1])
          /\ \A id \in Members(sync_sets_[ready_sync_set_index_ + 1]) :
               \A t \in delivered[id] : t < ready_timestamp_)
  /\ [][(Filled /\ verdict' # "none") =>
          /\ scan_before' = <<sync_sets_>>
          /\ (Armed' /\ sync_sets_'[ready_sync_set_index_' + 1] = fill[1].sync_set) =>
               ready_timestamp_' > fill[1].timestamp]_vars

\* C8 witness: the GetNodeReadiness after a FillInputSet made the same sync
\* set ready again.
C8_Witness ==
  /\ Scanned /\ Armed
  /\ \E id \in Members(sync_sets_[ready_sync_set_index_ + 1]) : delivered[id] # {}

\* C9: a sync set a scan finds done is removed, stays done, and is never in
\* the collection or ready afterwards; and GetNodeReadiness returns
\* kReadyForClose exactly when it leaves no sync set in the collection.
C9_PrunedNeverBack ==
  /\ \A s \in pruned : s \notin SetsOf(sync_sets_) /\ Exhausted(s)
  /\ Scanned =>
       \A i \in DOMAIN scan_before[1] :
         Exhausted(scan_before[1][i]) => scan_before[1][i] \in pruned
  /\ (Running /\ Armed) =>
       /\ ready_sync_set_index_ + 1 \in DOMAIN sync_sets_
       /\ sync_sets_[ready_sync_set_index_ + 1] \notin pruned
  /\ Evaluated => ((verdict = "kReadyForClose") <=> (sync_sets_ = <<>>))

\* C9 witness: a sync set was removed by an earlier call, and a later scan,
\* which removed nothing, made another sync set ready.
C9_Witness ==
  /\ Scanned /\ verdict = "kReadyForProcess"
  /\ pruned # {}
  /\ scan_before[1] = sync_sets_

\* C10: once GetNodeReadiness has returned kReadyForClose, every later
\* GetNodeReadiness before the next PrepareForRun returns kReadyForClose.
C10_CloseIsTerminal ==
  (closed /\ Evaluated) => verdict = "kReadyForClose"

\* C10 witness: a GetNodeReadiness that follows one that returned
\* kReadyForClose.
C10_Witness ==
  /\ closed /\ Evaluated
  /\ prev_result = <<"kReadyForClose", Done>>

\* The CHECKs of FillInputSet, and those of PrepareForRun.
FillChecks ==
  {"timestamp_not_allowed", "no_ready_sync_set", "timestamp_mismatch",
   "packets_dropped"}
PrepareChecks ==
  {"empty_sync_set", "stream_not_found", "stream_in_more_than_one_sync_set"}

\* C11: a FillInputSet that fails has popped no stream, and was called with no
\* sync set ready or with a timestamp other than the one the sync set is
\* ready at; a FillInputSet that fills was called with a sync set ready and
\* with that timestamp; and a FillInputSet that follows a FillInputSet with no
\* GetNodeReadiness between them does not fill: it fails.
C11_FailsIffNotReadyOrMismatch ==
  [][/\ fatal'.check \in FillChecks =>
          /\ fatal'.pops = 0
          /\ ~Armed \/ fatal'.input_timestamp # ready_timestamp_
          /\ fatal'.check = "no_ready_sync_set" => ~Armed
          /\ fatal'.check = "timestamp_mismatch" => Armed
     /\ fill' # <<>> => (Armed /\ fill'[1].timestamp = ready_timestamp_)
     /\ Filled => (fill' = <<>> /\ ~Armed)]_vars

\* C11 witness: the second of two FillInputSet calls, given the timestamp of
\* the first, failed on the CHECK that a sync set is ready.
C11_Witness ==
  /\ fatal.check = "no_ready_sync_set"
  /\ fatal.after_fill
  /\ fatal.pops = 0
  /\ fatal.input_timestamp \in StreamTs

\* A FillInputSet called with a sync set ready failed on the timestamp.
C11_MismatchFails ==
  /\ fatal.check = "timestamp_mismatch"
  /\ fatal.pops = 0

\* The tag_index entries of the options, by sync_set entry and place.
Places(options) ==
  UNION {{<<g, k>> : k \in DOMAIN options[g]} : g \in DOMAIN options}
HasEmptyEntry(options) == \E g \in DOMAIN options : Len(options[g]) = 0
HasUnresolved(options) ==
  \E p \in Places(options) : GetId(options[p[1]][p[2]]) = InvalidId
\* Two sync_set entries name the same stream.
ClaimedByTwoEntries(options) ==
  \E p, q \in Places(options) :
    /\ p[1] # q[1]
    /\ GetId(options[p[1]][p[2]]) # InvalidId
    /\ GetId(options[p[1]][p[2]]) = GetId(options[q[1]][q[2]])
\* Two tag_index entries, of one sync_set entry or of two, name the same
\* stream.
NamedTwice(options) ==
  \E p, q \in Places(options) :
    /\ p # q
    /\ GetId(options[p[1]][p[2]]) # InvalidId
    /\ GetId(options[p[1]][p[2]]) = GetId(options[q[1]][q[2]])
DefectiveAsClaimed(options) ==
  HasEmptyEntry(options) \/ HasUnresolved(options) \/ ClaimedByTwoEntries(options)
Defective(options) ==
  HasEmptyEntry(options) \/ HasUnresolved(options) \/ NamedTwice(options)

C12_EmptyEntryFails == fatal.check = "empty_sync_set"
C12_UnresolvedFails == fatal.check = "stream_not_found"

\* C13: while a sync set is ready, whatever the producers add or advance, the
\* index is an index of the collection, the min value of the sync set at that
\* index is ready_timestamp_, and every empty stream of that sync set has its
\* bound strictly above ready_timestamp_.
C13_ReadyNeverStale ==
  (Running /\ Armed) =>
    /\ ready_sync_set_index_ + 1 \in DOMAIN sync_sets_
    /\ MinValue(sync_sets_[ready_sync_set_index_ + 1]) = ready_timestamp_
    /\ \A id \in Members(sync_sets_[ready_sync_set_index_ + 1]) :
         /\ ValueOf(id) >= ready_timestamp_
         /\ IsEmptyStream(id) => input_stream_managers_[id].bound > ready_timestamp_

\* C13 witness: a producer has added a packet to a stream of the ready sync
\* set since the sync set was made ready.
C13_Witness ==
  /\ Running /\ Armed /\ verdict = "none"
  /\ \E id \in Members(sync_sets_[ready_sync_set_index_ + 1]) :
       \E k \in DOMAIN input_stream_managers_[id].queue :
         input_stream_managers_[id].queue[k] > ready_timestamp_

\* The streams of the sync sets of a collection.
StreamsOf(sets) == UNION {Members(sets[i]) : i \in DOMAIN sets}

\* C14 as claimed: in every state after PrepareForRun the sync sets are
\* disjoint, none is empty, and together they hold every input stream.
C14_PartitionOfAllStreams ==
  (prepared /\ Running) =>
    /\ \A id \in Ids : Occurrences(sync_sets_, id) <= 1
    /\ \A i \in DOMAIN sync_sets_ : sync_sets_[i] # <<>>
    /\ StreamsOf(sync_sets_) = Ids

\* C14 amended: in every state after PrepareForRun the sync sets are disjoint
\* and none is empty; together they hold every input stream until a sync set
\* is removed, and from then on every input stream but those of the sync sets
\* removed, all of which are done.
C14_PartitionOfRemainingStreams ==
  (prepared /\ Running) =>
    /\ \A id \in Ids : Occurrences(sync_sets_, id) <= 1
    /\ \A i \in DOMAIN sync_sets_ : sync_sets_[i] # <<>>
    /\ StreamsOf(sync_sets_) \subseteq Ids
    /\ StreamsOf(sync_sets_) = Ids \ UNION {Members(s) : s \in pruned}
    /\ \A id \in Ids \ StreamsOf(sync_sets_) : ValueOf(id) = Done

\* C14 witness: one sync set has been removed and another remains.
C14_Witness ==
  /\ prepared /\ Running
  /\ pruned # {}
  /\ sync_sets_ # <<>>

NotExhausted(sync_set) == ~Exhausted(sync_set)

\* C15: between one PrepareForRun and the next, only a GetNodeReadiness that
\* scans changes the collection; what a scan leaves is the collection it found
\* without the sync sets whose streams are all done, the others unchanged and
\* in their order; a sync set that is removed has no packet buffered and every
\* bound at Done.
C15_OnlyDoneSetsRemoved ==
  [][(prepared /\ Running /\ prepared' /\ ~JustPrepared') =>
       /\ sync_sets_' # sync_sets_ => (verdict' # "none" /\ scan_before' = <<sync_sets_>>)
       /\ scan_before' = <<>> => sync_sets_' = sync_sets_
       /\ scan_before' # <<>> => sync_sets_' = SelectSeq(sync_sets_, NotExhausted)
       /\ \A i \in DOMAIN sync_sets_ :
            sync_sets_[i] \notin SetsOf(sync_sets_') =>
              \A id \in Members(sync_sets_[i]) :
                /\ input_stream_managers_[id] = [queue |-> <<>>, bound |-> Done]
                /\ input_stream_managers_'[id] = input_stream_managers_[id]]_vars

\* C15 witness: a scan removed a sync set and left another, which buffers a
\* packet.
C15_Witness ==
  /\ Scanned
  /\ Len(sync_sets_) < Len(scan_before[1])
  /\ \E i \in DOMAIN sync_sets_ :
       \E id \in Members(sync_sets_[i]) : ~IsEmptyStream(id)

\* C16: a scan that removes a sync set examines each sync set of the
\* collection it found once, in the order of that collection, none skipped
\* and none twice; and the index it leaves names, in the collection it leaves,
\* the sync set it chose: the first of the qualifying sync sets of least min
\* value, whose min value is ready_timestamp_.
C16_EachExaminedOnce ==
  (Scanned /\ Len(sync_sets_) < Len(scan_before[1])) =>
    /\ examined = scan_before[1]
    /\ Armed =>
         /\ ready_sync_set_index_ + 1 \in DOMAIN sync_sets_
         /\ LET ready == sync_sets_[ready_sync_set_index_ + 1] IN
              /\ Qualifies(ready)
              /\ MinValue(ready) = ready_timestamp_
              /\ \A i \in DOMAIN sync_sets_ :
                   Qualifies(sync_sets_[i]) =>
                     \/ MinValue(sync_sets_[i]) > ready_timestamp_
                     \/ (MinValue(sync_sets_[i]) = ready_timestamp_
                           /\ i >= ready_sync_set_index_ + 1)

\* C16 witness: the scan removed the first sync set it found and made ready a
\* sync set that came after it.
C16_Witness ==
  /\ Scanned /\ Armed
  /\ Len(sync_sets_) < Len(scan_before[1])
  /\ scan_before[1][1] \notin SetsOf(sync_sets_)

\* C17: a GetNodeReadiness called while a sync set is ready returns
\* kReadyForProcess with ready_timestamp_, scans nothing, removes no sync set,
\* and leaves the collection, the index and the timestamp as they were,
\* whatever the streams hold by then.
C17_CachedReadinessReturned ==
  [][(prepared /\ Running /\ Armed /\ verdict' # "none") =>
       /\ verdict' = "kReadyForProcess"
       /\ min_stream_timestamp' = ready_timestamp_
       /\ scan_before' = <<>> /\ examined' = <<>>
       /\ sync_sets_' = sync_sets_
       /\ pruned' = pruned
       /\ ready_sync_set_index_' = ready_sync_set_index_
       /\ ready_timestamp_' = ready_timestamp_
       /\ input_stream_managers_' = input_stream_managers_]_vars

\* C17 witness: GetNodeReadiness returned the timestamp of the ready sync set
\* while another sync set qualifies at a strictly earlier timestamp.
C17_Witness ==
  /\ Evaluated /\ ~Scanned /\ Armed
  /\ verdict = "kReadyForProcess" /\ min_stream_timestamp = ready_timestamp_
  /\ \E i \in DOMAIN sync_sets_ :
       /\ Qualifies(sync_sets_[i])
       /\ MinValue(sync_sets_[i]) < ready_timestamp_

\* GetNodeReadiness returned the timestamp of the ready sync set while
\* another sync set of the collection is done, and left it there.
C17_DoneSetKept ==
  /\ Evaluated /\ ~Scanned /\ Armed
  /\ \E i \in DOMAIN sync_sets_ : Exhausted(sync_sets_[i])

\* C18: in a session in which the scheduler keeps calling GetNodeReadiness and
\* follows kReadyForProcess with FillInputSet, and every stream is closed in
\* the end, GetNodeReadiness returns kReadyForClose in the end, with no packet
\* left buffered in any stream; and a packet leaves its stream only by being
\* handed out by FillInputSet: so every packet that is buffered is handed out.
C18_AllDeliveredThenClose ==
  /\ (prepared /\ Running) ~>
       (/\ closed /\ verdict = "kReadyForClose"
        /\ \A id \in Ids : input_stream_managers_[id].queue = <<>>)
  /\ [][\A id \in Ids :
          \A k \in DOMAIN input_stream_managers_[id].queue :
            LET t == input_stream_managers_[id].queue[k] IN
              (\A j \in DOMAIN input_stream_managers_'[id].queue :
                 input_stream_managers_'[id].queue[j] # t)
                => (t \in delivered'[id] /\ fill' # <<>>)]_vars

\* C18 witness: GetNodeReadiness returned kReadyForClose after every stream,
\* in two sync sets, had every timestamp handed out.
C18_Witness ==
  /\ closed /\ verdict = "kReadyForClose"
  /\ Cardinality(pruned) = 2
  /\ \A id \in Ids : delivered[id] = StreamTs

\* C19: in every state of the handler, from its construction on, the index is
\* -1 exactly when ready_timestamp_ is Done, and ready_timestamp_ is below
\* Done when the index is 0 or more.
C19_IndexIffDone ==
  Running =>
    /\ (ready_sync_set_index_ = 0 - 1) <=> (ready_timestamp_ = Done)
    /\ ready_sync_set_index_ >= 0 => ready_timestamp_ < Done

\* The same from the first PrepareForRun on; and PrepareForRun leaves index -1
\* and timestamp Done when it is called while a sync set is ready.
C19_IndexIffDoneOncePrepared ==
  /\ []((prepared /\ Running) =>
          /\ (ready_sync_set_index_ = 0 - 1) <=> (ready_timestamp_ = Done)
          /\ ready_sync_set_index_ >= 0 => ready_timestamp_ \in StreamTs)
  /\ [][JustPrepared' =>
          (ready_sync_set_index_' = 0 - 1 /\ ready_timestamp_' = Done)]_vars

\* No PrepareForRun is called while a sync set is ready: a statement that is
\* violated, which shows that such a call is among the steps C19 covers.
C19_NeverPreparedWhileReady == [][~(Armed /\ JustPrepared')]_vars

====
